---- MODULE Spec2Model ----
(***************************************************************************)
(* goldmark-markdown: the line-oriented markdownWriter (writer.go) and the *)
(* markdown Renderer that drives it over a document tree (renderer.go).    *)
(*                                                                         *)
(* Byte strings are sequences of one-character strings.  A sink is the     *)
(* io.Writer handed to the writer: it records the byte strings it has      *)
(* accepted and, like errorWriter of the tests, starts to return an error  *)
(* at some call and keeps failing afterwards.                              *)
(***************************************************************************)
EXTENDS Integers, Sequences, FiniteSets, TLC

VARIABLES
    m,       \* the markdownWriter: buf, output (the sink), prefixes, line, err
    pc,      \* "writer": a direct client of the writer; else the position of
             \* the Render call: "idle", "walk", "done"
    doc,     \* the document being rendered: its corpus and the nodes visited
    config,  \* Renderer.config
    rc,      \* Renderer.rc without the writer: listMarker, inCodeSpan
    path,    \* the walk's stack of open nodes, root first
    result,  \* the value returned by Render (NoErr for nil)
    visit,   \* the last node visit: the node, entering, calls made, verdicts
    call,    \* the Render call in progress, where Render calls share the
             \* Renderer: its sink, and the same Render on a Renderer of its own
    other    \* a second Render call on the same Renderer, while it does not run

vars == <<m, pc, doc, config, rc, path, result, visit, call, other>>

(***************************************************************************)
(* Bounds                                                                  *)
(***************************************************************************)
\* nodes of a rendered document
MaxNodes == 7
\* depth of a rendered document, the Document included
MaxDepth == 6
\* children of one node
MaxSiblings == 2
\* latest sink call at which a sink of Render starts to fail
MaxFailFrom == 2
\* sink writes attempted by one writer
MaxSinkWrites == 2
\* bytes held in the line buffer by direct writer calls
MaxBuf == 2
\* prefixes pushed by direct writer calls
MaxPrefixes == 2
\* nodes of a document rendered concurrently with another
MaxConcurrentNodes == 3

(***************************************************************************)
(* Byte strings                                                            *)
(***************************************************************************)
lineDelim == "\n"

\* the byte 0x60, which cannot be written inside a string literal here
backtick == "'"

NoErr == 0

\* unicode.IsSpace on the bytes that occur in the model
IsSpace(c) == c \in {" ", "\t", "\n"}

RECURSIVE TrimRightFunc(_)
TrimRightFunc(s) ==
    IF s = <<>> THEN s
    ELSE IF IsSpace(s[Len(s)]) THEN TrimRightFunc(SubSeq(s, 1, Len(s) - 1))
    ELSE s

Contains(s, c) == \E i \in 1..Len(s) : s[i] = c

\* index of the first occurrence of c in s (c occurs in s)
IndexByte(s, c) == CHOOSE i \in 1..Len(s) : s[i] = c /\ \A j \in 1..(i - 1) : s[j] # c

Repeat(c, n) == [i \in 1..n |-> c]

RECURSIVE Concat(_)
Concat(ss) == IF ss = <<>> THEN <<>> ELSE Head(ss) \o Concat(Tail(ss))

(***************************************************************************)
(* The sink (io.Writer).  Call number failFrom and every later call return *)
(* an error and accept nothing; failFrom = 0 is a sink that never fails.   *)
(* The error returned by call number k is the value k.                     *)
(***************************************************************************)
Sink(failFrom) == [data |-> <<>>, calls |-> 0, failFrom |-> failFrom]

SinkFails(w) == w.failFrom # 0 /\ w.calls + 1 >= w.failFrom

SinkWrite(w, bytes) ==
    IF SinkFails(w)
    THEN [w |-> [w EXCEPT !.calls = @ + 1], err |-> w.calls + 1]
    ELSE [w |-> [w EXCEPT !.calls = @ + 1, !.data = Append(@, bytes)], err |-> NoErr]

(***************************************************************************)
(* markdownWriter                                                          *)
(***************************************************************************)
\* Reset without the reset of the line counter
ResetKeepsLine(mw, w) ==
    [mw EXCEPT !.buf = <<>>, !.output = w, !.prefixes = <<>>, !.err = NoErr]

Reset(mw, w) ==
    [mw EXCEPT !.buf = <<>>, !.output = w, !.prefixes = <<>>, !.line = 0, !.err = NoErr]

\* the struct literal leaves output, prefixes, line and err at their zero values
newMarkdownWriter(w) ==
    Reset([buf |-> <<>>, output |-> "nil", prefixes |-> <<>>, line |-> 0, err |-> NoErr], w)

\* buildPrefix with the end of the range excluded
RECURSIVE buildPrefixEndExcluded(_, _)
buildPrefixEndExcluded(prefixes, ln) ==
    IF prefixes = <<>> THEN <<>>
    ELSE LET prefix == Head(prefixes) IN
         (IF prefix.startLine <= ln /\ (prefix.endLine = -1 \/ ln < prefix.endLine)
          THEN prefix.bytes ELSE <<>>)
         \o buildPrefixEndExcluded(Tail(prefixes), ln)

\* the inner loop of Write over m.prefixes: the prefix bytes of line number ln
RECURSIVE buildPrefix(_, _)
buildPrefix(prefixes, ln) ==
    IF prefixes = <<>> THEN <<>>
    ELSE LET prefix == Head(prefixes) IN
         (IF prefix.startLine <= ln /\ (prefix.endLine = -1 \/ ln <= prefix.endLine)
          THEN prefix.bytes ELSE <<>>)
         \o buildPrefix(Tail(prefixes), ln)

\* the loop of Write counting a line also when the sink refuses it
RECURSIVE writeLinesCountsFailed(_)
writeLinesCountsFailed(mw) ==
    IF ~Contains(mw.buf, lineDelim) THEN mw
    ELSE LET i == IndexByte(mw.buf, lineDelim)
             line == SubSeq(mw.buf, 1, i)
             rest == SubSeq(mw.buf, i + 1, Len(mw.buf))
             prefixedLine == buildPrefix(mw.prefixes, mw.line) \o line
             trimmedSlice == TrimRightFunc(prefixedLine)
             r == SinkWrite(mw.output, Append(trimmedSlice, lineDelim))
             m1 == [mw EXCEPT !.buf = rest, !.output = r.w, !.line = @ + 1]
         IN IF r.err # NoErr
            THEN [m1 EXCEPT !.err = r.err]
            ELSE writeLinesCountsFailed(m1)

\* the loop of Write going on to the next line after the sink refused one
RECURSIVE writeLinesGoesOn(_)
writeLinesGoesOn(mw) ==
    IF ~Contains(mw.buf, lineDelim) THEN mw
    ELSE LET i == IndexByte(mw.buf, lineDelim)
             line == SubSeq(mw.buf, 1, i)
             rest == SubSeq(mw.buf, i + 1, Len(mw.buf))
             prefixedLine == buildPrefix(mw.prefixes, mw.line) \o line
             trimmedSlice == TrimRightFunc(prefixedLine)
             r == SinkWrite(mw.output, Append(trimmedSlice, lineDelim))
             m1 == [mw EXCEPT !.buf = rest, !.output = r.w]
         IN IF r.err # NoErr
            THEN writeLinesGoesOn([m1 EXCEPT !.err = IF @ = NoErr THEN r.err ELSE @])
            ELSE writeLinesGoesOn([m1 EXCEPT !.line = @ + 1])

\* the for loop of Write: one complete line per iteration
RECURSIVE writeLines(_)
writeLines(mw) ==
    IF ~Contains(mw.buf, lineDelim) THEN mw
    ELSE LET i == IndexByte(mw.buf, lineDelim)
             line == SubSeq(mw.buf, 1, i)
             rest == SubSeq(mw.buf, i + 1, Len(mw.buf))
             prefixedLine == buildPrefix(mw.prefixes, mw.line) \o line
             trimmedSlice == TrimRightFunc(prefixedLine)
             r == SinkWrite(mw.output, Append(trimmedSlice, lineDelim))
             m1 == [mw EXCEPT !.buf = rest, !.output = r.w]
         IN IF r.err # NoErr
            THEN [m1 EXCEPT !.err = r.err]
            ELSE writeLines([m1 EXCEPT !.line = @ + 1])

\* Write without the check of the stored error
WriteUnchecked(mw, data) ==
    LET m1 == writeLines([mw EXCEPT !.buf = @ \o data])
    IN [m |-> m1, n |-> IF m1.err # NoErr THEN 0 ELSE Len(data)]

\* every writer call yields the writer after the call and the value returned
Write(mw, data) ==
    IF mw.err # NoErr THEN [m |-> mw, n |-> 0]
    ELSE LET m1 == writeLines([mw EXCEPT !.buf = @ \o data])
         IN [m |-> m1, n |-> IF m1.err # NoErr THEN 0 ELSE Len(data)]

WriteString(mw, data) ==
    IF mw.err = NoErr
    THEN [m |-> [mw EXCEPT !.buf = @ \o data], n |-> Len(data)]
    ELSE [m |-> mw, n |-> 0]

EndLine(mw) == [m |-> Write(mw, <<lineDelim>>).m, n |-> 0]

FlushLine(mw) ==
    IF Len(mw.buf) > 0 THEN EndLine(mw) ELSE [m |-> mw, n |-> 0]

WriteLine(mw, line) ==
    LET r == Write(mw, line)
    IN [m |-> FlushLine(r.m).m, n |-> r.n]

\* PushPrefix with the end of the range counted from the current line
PushPrefixEndFromCurrent(mw, bytes, lineRanges) ==
    LET startLine == IF Len(lineRanges) > 0 THEN mw.line + lineRanges[1] ELSE 0
        endLine == IF Len(lineRanges) > 1 THEN mw.line + lineRanges[2] ELSE -1
    IN [mw EXCEPT !.prefixes =
            Append(@, [startLine |-> startLine, endLine |-> endLine, bytes |-> bytes])]

\* lineRanges is the variadic argument: <<>>, <<start>> or <<start, end>>
PushPrefix(mw, bytes, lineRanges) ==
    LET startLine == IF Len(lineRanges) > 0 THEN mw.line + lineRanges[1] ELSE 0
        endLine == IF Len(lineRanges) > 1 THEN startLine + lineRanges[2] ELSE -1
    IN [mw EXCEPT !.prefixes =
            Append(@, [startLine |-> startLine, endLine |-> endLine, bytes |-> bytes])]

PopPrefix(mw) == [mw EXCEPT !.prefixes = SubSeq(@, 1, Len(@) - 1)]

Err(mw) == mw.err

(***************************************************************************)
(* Configuration (options.go)                                              *)
(***************************************************************************)
HeadingStyleATX == 0
HeadingStyleATXSurround == 1
HeadingStyleSetext == 2
HeadingStyleFullWidthSetext == 3

IndentStyleSpaces == 0
IndentStyleTabs == 1

ThematicBreakStyleDashed == 0
ThematicBreakStyleStarred == 1
ThematicBreakStyleUnderlined == 2

ThematicBreakLengthMinimum == 3

NewConfig ==
    [IndentStyle |-> IndentStyleSpaces, HeadingStyle |-> HeadingStyleATX,
     ThematicBreakStyle |-> ThematicBreakStyleDashed,
     ThematicBreakLength |-> ThematicBreakLengthMinimum]

IsSetext(i) == i = HeadingStyleSetext \/ i = HeadingStyleFullWidthSetext

IndentStyleBytes(i) ==
    IF i = IndentStyleSpaces THEN <<" ", " ", " ", " ">> ELSE <<"\t">>

(***************************************************************************)
(* Document tree nodes, as the renderers read them.  A node is a record:   *)
(* kind; blank (HasBlankPreviousLines); hasPrev (PreviousSibling() # nil); *)
(* hasChildren; level (Heading); lines (Lines(), each with its line end);  *)
(* marker and start (List); text (Text, and CodeSpan: the text of its      *)
(* children); soft (SoftLineBreak); info (FencedCodeBlock; <<>> for nil);  *)
(* closure (HTMLBlock ClosureLine; <<>> for none); dest and title (Link).  *)
(***************************************************************************)
WalkContinue == "WalkContinue"
WalkSkipChildren == "WalkSkipChildren"

BlockKinds ==
    {"Paragraph", "TextBlock", "Heading", "ThematicBreak", "CodeBlock",
     "FencedCodeBlock", "HTMLBlock", "List", "ListItem"}

InlineKinds == {"Text", "CodeSpan", "Link"}

\* ast.Node.Type(): a Document is of its own type, not a block
NodeType(node) ==
    IF node.kind = "Document" THEN "TypeDocument"
    ELSE IF node.kind \in BlockKinds THEN "TypeBlock"
    ELSE "TypeInline"

(***************************************************************************)
(* The Renderer r: config, rc (listMarker, inCodeSpan), the writer m of    *)
(* rc, and the trace of the visit in progress: every node renderer entered *)
(* and every call it makes on r.rc.writer, in order.  No renderer reads    *)
(* the writer or uses what a writer call returns, so the calls of a visit  *)
(* act on the writer in the order of the trace: Walker applies them.       *)
(***************************************************************************)
Ev(op, arg, rng) == [op |-> op, arg |-> arg, rng |-> rng]

Entered(r, name) == [r EXCEPT !.trace = Append(@, Ev(name, <<>>, <<>>))]

wWrite(r, data) == [r EXCEPT !.trace = Append(@, Ev("Write", data, <<>>))]

wWriteString(r, data) == [r EXCEPT !.trace = Append(@, Ev("WriteString", data, <<>>))]

wWriteLine(r, data) == [r EXCEPT !.trace = Append(@, Ev("WriteLine", data, <<>>))]

wEndLine(r) == [r EXCEPT !.trace = Append(@, Ev("EndLine", <<>>, <<>>))]

wFlushLine(r) == [r EXCEPT !.trace = Append(@, Ev("FlushLine", <<>>, <<>>))]

wPushPrefix(r, bytes, lineRanges) ==
    [r EXCEPT !.trace = Append(@, Ev("PushPrefix", bytes, lineRanges))]

wPopPrefix(r) == [r EXCEPT !.trace = Append(@, Ev("PopPrefix", <<>>, <<>>))]

\* one call on r.rc.writer
WriterCall(mw, e) ==
    CASE e.op = "Write" -> Write(mw, e.arg).m
      [] e.op = "WriteString" -> WriteString(mw, e.arg).m
      [] e.op = "WriteLine" -> WriteLine(mw, e.arg).m
      [] e.op = "EndLine" -> EndLine(mw).m
      [] e.op = "FlushLine" -> FlushLine(mw).m
      [] e.op = "PushPrefix" -> PushPrefix(mw, e.arg, e.rng)
      [] e.op = "PopPrefix" -> PopPrefix(mw)
      [] OTHER -> mw

\* the writer after the calls of a trace, in order
RECURSIVE WriterCalls(_, _)
WriterCalls(mw, trace) ==
    IF trace = <<>> THEN mw
    ELSE WriterCalls(WriterCall(mw, Head(trace)), Tail(trace))

Continue(r) == [r |-> r, status |-> WalkContinue]

renderBlockSeparator(r0, node, entering) ==
    LET r == Entered(r0, "renderBlockSeparator") IN
    IF entering
    THEN IF node.hasPrev /\ node.blank THEN Continue(wEndLine(r)) ELSE Continue(r)
    ELSE Continue(wFlushLine(r))

\* renderATXHeading with the closing sequence for headings with content only
renderATXHeadingClosesContent(r0, node, entering) ==
    LET r == Entered(r0, "renderATXHeading") IN
    IF entering
    THEN LET r1 == wWrite(r, Repeat("#", node.level))
         IN Continue(IF node.hasChildren THEN wWrite(r1, <<" ">>) ELSE r1)
    ELSE IF r.config.HeadingStyle = HeadingStyleATXSurround /\ node.hasChildren
         THEN Continue(wWriteString(wWrite(r, <<" ">>), Repeat("#", node.level)))
         ELSE Continue(r)

renderATXHeading(r0, node, entering) ==
    LET r == Entered(r0, "renderATXHeading") IN
    IF entering
    THEN LET r1 == wWrite(r, Repeat("#", node.level))
         IN Continue(IF node.hasChildren THEN wWrite(r1, <<" ">>) ELSE r1)
    ELSE IF r.config.HeadingStyle = HeadingStyleATXSurround
         THEN Continue(wWriteString(wWrite(r, <<" ">>), Repeat("#", node.level)))
         ELSE Continue(r)

Max(a, b) == IF a > b THEN a ELSE b

\* the loop of renderSetextHeading over the heading's lines
RECURSIVE MaxLineWidth(_, _)
MaxLineWidth(lines, width) ==
    IF lines = <<>> THEN width
    ELSE MaxLineWidth(Tail(lines), Max(width, Len(Head(lines))))

renderSetextHeading(r0, node, entering) ==
    LET r == Entered(r0, "renderSetextHeading") IN
    IF entering THEN Continue(r)
    ELSE LET underlineChar == <<"", "=", "-">>[node.level + 1]
             underlineWidth ==
                 IF r.config.HeadingStyle = HeadingStyleFullWidthSetext
                 THEN MaxLineWidth(node.lines, 3) ELSE 3
         IN Continue(wWrite(wWrite(r, <<"\n">>), Repeat(underlineChar, underlineWidth)))

\* renderHeading without the rule for multiline headings
renderHeadingByConfig(r0, node, entering) ==
    LET r == Entered(r0, "renderHeading") IN
    IF ~node.hasChildren \/ node.level > 2 THEN renderATXHeading(r, node, entering)
    ELSE IF IsSetext(r.config.HeadingStyle) THEN renderSetextHeading(r, node, entering)
    ELSE renderATXHeading(r, node, entering)

renderHeading(r0, node, entering) ==
    LET r == Entered(r0, "renderHeading") IN
    IF ~node.hasChildren \/ node.level > 2 THEN renderATXHeading(r, node, entering)
    ELSE IF Len(node.lines) > 1 THEN renderSetextHeading(r, node, entering)
    ELSE IF IsSetext(r.config.HeadingStyle) THEN renderSetextHeading(r, node, entering)
    ELSE renderATXHeading(r, node, entering)

\* renderThematicBreak without the minimum length
renderThematicBreakAsConfigured(r0, node, entering) ==
    LET r == Entered(r0, "renderThematicBreak") IN
    IF entering
    THEN LET breakChar == <<"-", "*", "_">>[r.config.ThematicBreakStyle + 1]
         IN Continue(wWriteString(r, Repeat(breakChar, r.config.ThematicBreakLength)))
    ELSE Continue(r)

renderThematicBreak(r0, node, entering) ==
    LET r == Entered(r0, "renderThematicBreak") IN
    IF entering
    THEN LET breakChar == <<"-", "*", "_">>[r.config.ThematicBreakStyle + 1]
             breakLen == IF r.config.ThematicBreakLength < ThematicBreakLengthMinimum
                         THEN ThematicBreakLengthMinimum
                         ELSE r.config.ThematicBreakLength
         IN Continue(wWriteString(r, Repeat(breakChar, breakLen)))
    ELSE Continue(r)

RECURSIVE renderLineSlice(_, _)
renderLineSlice(r, lines) ==
    IF lines = <<>> THEN r
    ELSE renderLineSlice(wWriteLine(r, Head(lines)), Tail(lines))

renderLines(r, node, entering) ==
    IF entering THEN renderLineSlice(r, node.lines) ELSE r

\* renderCodeBlock leaving its prefix on the stack
renderCodeBlockKeepsPrefix(r0, node, entering) ==
    LET r == Entered(r0, "renderCodeBlock") IN
    [r |-> IF entering
           THEN renderLines(wPushPrefix(r, IndentStyleBytes(r.config.IndentStyle), <<>>),
                            node, entering)
           ELSE r,
     status |-> WalkSkipChildren]

renderCodeBlock(r0, node, entering) ==
    LET r == Entered(r0, "renderCodeBlock") IN
    [r |-> IF entering
           THEN renderLines(wPushPrefix(r, IndentStyleBytes(r.config.IndentStyle), <<>>),
                            node, entering)
           ELSE wPopPrefix(r),
     status |-> WalkSkipChildren]

\* renderFencedCodeBlock without the FlushLine that completes the opening line
renderFencedCodeBlockOpenLine(r0, node, entering) ==
    LET r == wWrite(Entered(r0, "renderFencedCodeBlock"), <<backtick, backtick, backtick>>) IN
    IF entering
    THEN LET r1 == IF node.info # <<>> THEN wWrite(r, node.info) ELSE r
         IN Continue(renderLines(r1, node, entering))
    ELSE Continue(r)

renderFencedCodeBlock(r0, node, entering) ==
    LET r == wWrite(Entered(r0, "renderFencedCodeBlock"), <<backtick, backtick, backtick>>) IN
    IF entering
    THEN LET r1 == IF node.info # <<>> THEN wWrite(r, node.info) ELSE r
         IN Continue(renderLines(wFlushLine(r1), node, entering))
    ELSE Continue(r)

renderHTMLBlock(r0, node, entering) ==
    LET r == Entered(r0, "renderHTMLBlock") IN
    IF entering THEN Continue(renderLines(r, node, entering))
    ELSE IF node.closure # <<>> THEN Continue(wWriteLine(r, node.closure))
    ELSE Continue(r)

renderList(r0, node, entering) ==
    LET r == Entered(r0, "renderList") IN
    IF entering THEN Continue([r EXCEPT !.rc.listMarker = node.marker])
    ELSE Continue(r)

\* renderListItem with the continuation indent starting at the current line
renderListItemIndentAtOnce(r0, node, entering) ==
    LET r == Entered(r0, "renderListItem") IN
    IF entering
    THEN LET itemPrefix == <<r.rc.listMarker, " ">>
         IN Continue(wPushPrefix(wPushPrefix(r, itemPrefix, <<0, 0>>),
                                 Repeat(" ", Len(itemPrefix)), <<0>>))
    ELSE Continue(wPopPrefix(wPopPrefix(r)))

renderListItem(r0, node, entering) ==
    LET r == Entered(r0, "renderListItem") IN
    IF entering
    THEN LET itemPrefix == <<r.rc.listMarker, " ">>
         IN Continue(wPushPrefix(wPushPrefix(r, itemPrefix, <<0, 0>>),
                                 Repeat(" ", Len(itemPrefix)), <<1>>))
    ELSE Continue(wPopPrefix(wPopPrefix(r)))

\* bytes.ReplaceAll(text, "\n", " ")
ReplaceNewlines(text) == [i \in 1..Len(text) |-> IF text[i] = "\n" THEN " " ELSE text[i]]

renderText(r0, node, entering) ==
    LET r == Entered(r0, "renderText") IN
    IF entering
    THEN LET text == IF r.rc.inCodeSpan THEN ReplaceNewlines(node.text) ELSE node.text
             r1 == wWrite(r, text)
         IN Continue(IF node.soft THEN wWriteString(r1, <<"\n">>) ELSE r1)
    ELSE Continue(r)

renderLink(r0, node, entering) ==
    LET r == Entered(r0, "renderLink") IN
    IF entering THEN Continue(wWrite(r, <<"[">>))
    ELSE LET r1 == wWriteString(r, <<"]", "(">> \o node.dest)
             r2 == IF Len(node.title) > 0
                   THEN wWriteString(r1, <<" ", "\"">> \o node.title \o <<"\"">>)
                   ELSE r1
         IN Continue(wWriteString(r2, <<")">>))

\* bytes.Count(text, backtick)
CountBackticks(text) == Cardinality({i \in 1..Len(text) : text[i] = backtick})

renderCodeSpan(r0, node, entering) ==
    LET r == Entered(r0, "renderCodeSpan")
        r1 == IF CountBackticks(node.text) % 2 # 0
              THEN wWriteString(r, <<backtick, backtick>>)
              ELSE wWriteString(r, <<backtick>>)
    IN Continue([r1 EXCEPT !.rc.inCodeSpan = entering])

\* the renderers getRenderer collects for a node, in order
getRenderer(node) ==
    (IF NodeType(node) = "TypeBlock" THEN <<"renderBlockSeparator">> ELSE <<>>)
    \o (IF node.kind \in {"Heading", "CodeBlock", "CodeSpan", "ThematicBreak",
                          "FencedCodeBlock", "HTMLBlock", "List", "ListItem",
                          "Text", "Link"}
        THEN <<node.kind>> ELSE <<>>)

callRenderer(name, r, node, entering) ==
    CASE name = "renderBlockSeparator" -> renderBlockSeparator(r, node, entering)
      [] name = "Heading" -> renderHeading(r, node, entering)
      [] name = "CodeBlock" -> renderCodeBlock(r, node, entering)
      [] name = "CodeSpan" -> renderCodeSpan(r, node, entering)
      [] name = "ThematicBreak" -> renderThematicBreak(r, node, entering)
      [] name = "FencedCodeBlock" -> renderFencedCodeBlock(r, node, entering)
      [] name = "HTMLBlock" -> renderHTMLBlock(r, node, entering)
      [] name = "List" -> renderList(r, node, entering)
      [] name = "ListItem" -> renderListItem(r, node, entering)
      [] name = "Text" -> renderText(r, node, entering)
      [] name = "Link" -> renderLink(r, node, entering)

Reverse(s) == [i \in 1..Len(s) |-> s[Len(s) + 1 - i]]

\* the loop of the function chainRenderers returns; with no renderer the result
\* is the zero WalkStatus, which is none of WalkStop, WalkSkipChildren and
\* WalkContinue: ast.Walk goes on to the children
RECURSIVE runChain(_, _, _, _, _)
runChain(renderers, r, node, entering, walkStatus) ==
    IF renderers = <<>> THEN [r |-> r, status |-> walkStatus]
    ELSE LET res == callRenderer(Head(renderers), r, node, entering)
         IN runChain(Tail(renderers), res.r, node, entering, res.status)

\* chainRenderers going through the renderers in the same order on both visits
chainRenderersInOrder(renderers, r, node, entering) ==
    runChain(renderers, r, node, entering, "WalkStatus(0)")

chainRenderers(renderers, r, node, entering) ==
    runChain(IF entering THEN renderers ELSE Reverse(renderers), r, node, entering,
             "WalkStatus(0)")

\* the walker function without the writer's error in its result
WalkerDropsErr(r, node, entering) ==
    LET res == chainRenderers(getRenderer(node), r, node, entering)
        m1 == WriterCalls(r.m, res.r.trace)
    IN [r |-> [res.r EXCEPT !.m = m1], status |-> res.status, err |-> NoErr]

\* the walker function of Render: one visit of a node
Walker(r, node, entering) ==
    LET res == chainRenderers(getRenderer(node), r, node, entering)
        m1 == WriterCalls(r.m, res.r.trace)
    IN [r |-> [res.r EXCEPT !.m = m1], status |-> res.status, err |-> Err(m1)]

\* newRenderContext handing on the writer of the last Render, pointed at w
newRenderContextKeepsWriter(w) ==
    [m |-> [m EXCEPT !.output = w], rc |-> [listMarker |-> "", inCodeSpan |-> FALSE]]

newRenderContext(w) ==
    [m |-> newMarkdownWriter(w), rc |-> [listMarker |-> "", inCodeSpan |-> FALSE]]

(***************************************************************************)
(* A client that drives a markdownWriter directly, as writer_test.go does  *)
(***************************************************************************)
\* byte strings handed to Write, WriteString and WriteLine
Data == {<<"a">>, <<" ">>, <<"\n">>}

\* prefixes handed to PushPrefix, and its lineRanges arguments
PrefixBytes == {<<">">>, <<" ">>}
LineRanges == {<<>>, <<1>>, <<0, 0>>, <<1, 0>>}

\* sinks handed to newMarkdownWriter and Reset
Sinks == {Sink(k) : k \in 0..MaxSinkWrites}

NoDoc == [class |-> "none", nodes |-> 0]

NoVisit == [node |-> [kind |-> "none"], entering |-> FALSE, trace |-> <<>>,
            status |-> "", before |-> 0]

\* what a Renderer that has not rendered holds of a Render before
NoRender ==
    [rendered |-> FALSE, result |-> NoErr, rc |-> [listMarker |-> "", inCodeSpan |-> FALSE],
     prefixes |-> 0, buf |-> <<>>]

\* a Render call that has not started: no sink, nothing rendered
NoCall ==
    [w |-> "nil", attached |-> FALSE, prev |-> NoRender,
     alone |-> [m |-> newMarkdownWriter(Sink(0)),
                rc |-> [listMarker |-> "", inCodeSpan |-> FALSE], result |-> NoErr]]

NoOther ==
    [pc |-> "idle", doc |-> NoDoc, path |-> <<>>, result |-> NoErr, visit |-> NoVisit,
     call |-> NoCall]

RendererIdle ==
    /\ doc = NoDoc
    /\ config = NewConfig
    /\ rc = [listMarker |-> "", inCodeSpan |-> FALSE]
    /\ path = <<>>
    /\ result = NoErr
    /\ visit = NoVisit
    /\ call = NoCall
    /\ other = NoOther

InitWriter ==
    /\ pc = "writer"
    /\ \E w \in Sinks : m = newMarkdownWriter(w)
    /\ RendererIdle

\* the calls stay within the bounds of the model
InBounds(mw) ==
    /\ Len(mw.buf) <= MaxBuf
    /\ mw.output.calls <= MaxSinkWrites
    /\ Len(mw.prefixes) <= MaxPrefixes

Called(res) ==
    /\ pc = "writer"
    /\ m.output.calls < MaxSinkWrites
    /\ InBounds(res.m)
    /\ m' = res.m
    /\ UNCHANGED <<pc, doc, config, rc, path, result, visit, call, other>>

DoWrite == \E data \in Data : Called(Write(m, data))

DoWriteString == \E data \in Data : Called(WriteString(m, data))

DoWriteLine == \E data \in Data : Called(WriteLine(m, data))

DoEndLine == Called(EndLine(m))

DoFlushLine == Called(FlushLine(m))

\* a client pushes a prefix that is not on the stack yet
DoPushPrefix ==
    \E bytes \in PrefixBytes, lineRanges \in LineRanges :
        /\ \A i \in 1..Len(m.prefixes) : m.prefixes[i].bytes # bytes
        /\ Called([m |-> PushPrefix(m, bytes, lineRanges), n |-> 0])

\* PopPrefix on an empty stack slices out of range and panics
DoPopPrefix ==
    /\ Len(m.prefixes) > 0
    /\ Called([m |-> PopPrefix(m), n |-> 0])

DoReset ==
    /\ pc = "writer"
    /\ \E w \in Sinks : m' = Reset(m, w)
    /\ UNCHANGED <<pc, doc, config, rc, path, result, visit, call, other>>

NextWriter ==
    \/ DoWrite
    \/ DoWriteString
    \/ DoWriteLine
    \/ DoEndLine
    \/ DoFlushLine
    \/ DoPushPrefix
    \/ DoPopPrefix
    \/ DoReset

SpecWriter == InitWriter /\ [][NextWriter]_vars

(***************************************************************************)
(* Documents.  The walk reveals the tree as it visits it: a node is drawn  *)
(* when it is entered, from the nodes the parser can put under its parent. *)
(* Documents come from four corpora, each exercising one family of         *)
(* constructs, and each is rendered under the configurations that matter   *)
(* to it.  A fifth corpus, of lists, code blocks and code spans in their   *)
(* simplest forms, is rendered where Render calls share a Renderer.        *)
(***************************************************************************)
Classes == {"leaf", "heading", "list", "inline"}

SharedClass == "mixed"

Node(kind) ==
    [kind |-> kind, blank |-> FALSE, hasPrev |-> FALSE, hasChildren |-> FALSE,
     level |-> 0, lines |-> <<>>, marker |-> "", start |-> 0, text |-> <<>>,
     soft |-> FALSE, info |-> <<>>, closure |-> <<>>, dest |-> <<>>, title |-> <<>>]

Parent(kind) == [Node(kind) EXCEPT !.hasChildren = TRUE]

TextNode(text, soft) == [Node("Text") EXCEPT !.text = text, !.soft = soft]

\* source lines of code and HTML blocks, each with its line ending
OneLine == << <<"a", "\n">> >>
CodeLines == << <<"a", "\n">>, <<"b", "\n">> >>

\* source lines of headings: the last line of a heading comes without its line
\* ending, an earlier line of a Setext heading with it
NoText == << <<>> >>
ShortLine == << <<"a">> >>
LongLine == << <<"a", "a", "a", "a">> >>
TwoLines == << <<"a", "a", "a", "a", "\n">>, <<"a">> >>

\* contents of code spans; a backtick run of length 3 is the longest
CodeSpanTexts ==
    {<<"a">>, <<backtick>>, <<backtick, backtick>>, <<backtick, "a", backtick>>,
     <<backtick, backtick, " ", backtick>>, <<backtick, backtick, backtick>>,
     <<" ", "a", " ">>, <<" ", "a">>, <<" ">>, <<"a", backtick>>, <<"a", "\n", "a">>}

\* List nodes: bullet lists, and ordered lists with their start number
Lists ==
    {[Parent("List") EXCEPT !.marker = "-"]}
    \cup {[Parent("List") EXCEPT !.marker = ".", !.start = n] : n \in {1, 9}}

IsOrdered(list) == list.marker \in {".", ")"}

Flagged(nodes) == {[n EXCEPT !.blank = b] : n \in nodes, b \in BOOLEAN}

LeafBlocks ==
    {Parent("Paragraph"), Node("ThematicBreak"),
     [Node("CodeBlock") EXCEPT !.lines = OneLine]}
    \cup {[Node("FencedCodeBlock") EXCEPT !.lines = ls, !.info = i] :
            ls \in {OneLine, CodeLines}, i \in {<<>>, <<"r">>}}
    \cup {[Node("HTMLBlock") EXCEPT !.lines = OneLine, !.closure = c] :
            c \in {<<>>, <<"<", ">", "\n">>}}

Headings ==
    {[Node("Heading") EXCEPT !.level = l, !.lines = NoText] : l \in {1, 2, 3, 6}}
    \cup {[Parent("Heading") EXCEPT !.level = l, !.lines = ls] :
            l \in {1, 2, 3, 6}, ls \in {ShortLine, LongLine, TwoLines}}

\* the nodes that can be the next child of parent in a document of the corpus
Children(class, parent) ==
    CASE parent.kind = "Document" ->
            (CASE class = "leaf" -> Flagged(LeafBlocks)
               [] class = "heading" -> Headings
               [] class = "list" -> Flagged(Lists \cup {Node("ThematicBreak")})
               [] class = "inline" -> {Parent("Paragraph")}
               [] class = SharedClass ->
                    {[Parent("List") EXCEPT !.marker = "-"], Parent("Paragraph"),
                     [Node("CodeBlock") EXCEPT !.lines = OneLine]})
      [] parent.kind = "Paragraph" /\ class = SharedClass ->
            {TextNode(<<"a">>, b) : b \in BOOLEAN}
            \cup {[Parent("CodeSpan") EXCEPT !.text = <<"a">>]}
      [] parent.kind = "List" /\ class = SharedClass -> {Parent("ListItem")}
      [] parent.kind = "ListItem" /\ class = SharedClass -> {Parent("TextBlock")}
      [] parent.kind \in {"Paragraph", "TextBlock", "Heading"} ->
            IF class = "inline"
            THEN {TextNode(<<"a">>, b) : b \in BOOLEAN}
                 \cup {[Parent("CodeSpan") EXCEPT !.text = t] : t \in CodeSpanTexts}
                 \cup {[Node("Link") EXCEPT !.dest = <<"u">>, !.title = t, !.hasChildren = b] :
                         t \in {<<>>, <<"t">>}, b \in BOOLEAN}
            ELSE {TextNode(<<"a">>, FALSE)}
      [] parent.kind = "List" ->
            Flagged({Node("ListItem"), Parent("ListItem")})
      [] parent.kind = "ListItem" ->
            Flagged(Lists \cup {Parent("TextBlock"), Node("ThematicBreak")})
      [] parent.kind = "CodeSpan" -> {TextNode(parent.text, FALSE)}
      [] parent.kind = "Link" -> {TextNode(<<"a">>, FALSE)}
      [] OTHER -> {}

Documents == {Node("Document"), Parent("Document")}

\* the configurations a corpus is rendered under
Configs(class) ==
    CASE class = "heading" ->
            {[NewConfig EXCEPT !.HeadingStyle = h] :
                h \in {HeadingStyleATX, HeadingStyleATXSurround, HeadingStyleSetext,
                       HeadingStyleFullWidthSetext}}
      [] class = "leaf" ->
            {NewConfig, [NewConfig EXCEPT !.IndentStyle = IndentStyleTabs]}
            \cup {[NewConfig EXCEPT !.ThematicBreakStyle = t] :
                    t \in {ThematicBreakStyleStarred, ThematicBreakStyleUnderlined}}
            \cup {[NewConfig EXCEPT !.ThematicBreakLength = n] : n \in {-1, 0, 4}}
      [] OTHER -> {NewConfig}

\* rc.writer of a Renderer that has not rendered yet
NilWriter == newMarkdownWriter(Sink(0))

\* the sinks handed to Render: failing sinks with the documents of the leaf
\* corpus, whose blocks all complete lines, and where a Renderer is shared
RenderSinks(class) ==
    IF class \in {"leaf", SharedClass} THEN {Sink(k) : k \in 0..MaxFailFrom} ELSE {Sink(0)}

(***************************************************************************)
(* The Renderer                                                            *)
(***************************************************************************)
\* NewRenderer(options...)
InitRender ==
    /\ pc = "idle"
    /\ config \in UNION {Configs(c) : c \in Classes}
    /\ m = NilWriter
    /\ rc = [listMarker |-> "", inCodeSpan |-> FALSE]
    /\ doc = NoDoc
    /\ path = <<>>
    /\ result = NoErr
    /\ visit = NoVisit
    /\ call = NoCall
    /\ other = NoOther

\* Render(w, source, n) up to the call of ast.Walk, for a document of a corpus
RenderCall(class, w) ==
    /\ pc \in {"idle", "done"}
    /\ config \in Configs(class)
    /\ LET ctx == newRenderContext(w) IN
        /\ m' = ctx.m
        /\ rc' = ctx.rc
    /\ doc' = [class |-> class, nodes |-> 0]
    /\ pc' = "walk"
    /\ path' = <<>>
    /\ result' = NoErr
    /\ visit' = NoVisit
    /\ UNCHANGED config

\* the Render calls of a Renderer follow one another
Render ==
    /\ \E class \in Classes : \E w \in RenderSinks(class) : RenderCall(class, w)
    /\ UNCHANGED <<call, other>>

Top == path[Len(path)]

\* what a visit leaves behind; an error returned by the walker ends the walk
Visited(node, entering, res, newPath) ==
    /\ m' = res.r.m
    /\ rc' = res.r.rc
    /\ visit' = [node |-> node, entering |-> entering, trace |-> res.r.trace,
                 status |-> res.status, before |-> Len(m.output.data)]
    /\ path' = newPath
    /\ IF res.err # NoErr
       THEN pc' = "done" /\ result' = res.err
       ELSE IF newPath = <<>>
            THEN pc' = "done" /\ result' = NoErr
            ELSE pc' = "walk" /\ result' = result
    /\ UNCHANGED config

\* the prefixes a visit handed to PushPrefix, in order
Pushed(trace) ==
    LET calls == SelectSeq(trace, LAMBDA e : e.op = "PushPrefix")
    IN [i \in 1..Len(calls) |-> calls[i].arg]

\* ast.Walk calls the walker on entering a node: the root, or the next child.
\* The entry of an open node remembers how many lines were out when the node
\* had been entered and the prefixes its renderers pushed
EnterNode ==
    /\ pc = "walk"
    /\ doc.nodes < MaxNodes
    /\ Len(path) < MaxDepth
    /\ \E node \in IF path = <<>> THEN Documents
                   ELSE {[n EXCEPT !.hasPrev = Top.nchild > 0] :
                            n \in Children(doc.class, Top.node)} :
        /\ path = <<>> => doc.nodes = 0
        /\ path # <<>> => ~Top.skip /\ Top.node.hasChildren /\ Top.nchild < MaxSiblings
        /\ LET res == Walker([config |-> config, rc |-> rc, m |-> m, trace |-> <<>>],
                             node, TRUE)
               up == IF path = <<>> THEN path
                     ELSE [path EXCEPT ![Len(path)].nchild = @ + 1,
                                       ![Len(path)].more = node.soft]
           IN Visited(node, TRUE, res,
                      Append(up, [node |-> node, nchild |-> 0, more |-> FALSE,
                                  skip |-> res.status = WalkSkipChildren,
                                  line |-> Len(res.r.m.output.data),
                                  pushed |-> Pushed(res.r.trace)]))
    /\ doc' = [doc EXCEPT !.nodes = @ + 1]

Enter == EnterNode /\ UNCHANGED <<call, other>>

\* ast.Walk calls the walker on exiting a node, after its last child
ExitNode ==
    /\ pc = "walk"
    /\ path # <<>>
    /\ Top.skip \/ (Top.node.hasChildren <=> Top.nchild > 0)
    /\ ~Top.more
    /\ LET res == Walker([config |-> config, rc |-> rc, m |-> m, trace |-> <<>>],
                         Top.node, FALSE)
       IN Visited(Top.node, FALSE, res, SubSeq(path, 1, Len(path) - 1))
    /\ UNCHANGED doc

Exit == ExitNode /\ UNCHANGED <<call, other>>

NextRender ==
    \/ Render
    \/ Enter
    \/ Exit

SpecRender == InitRender /\ [][NextRender]_vars

(***************************************************************************)
(* Properties of the writer, checked under SpecWriter                      *)
(***************************************************************************)
\* the lines the sink accepted during a call that took the writer from m0 to m1
NewLines(m0, m1) == SubSeq(m1.output.data, Len(m0.output.data) + 1, Len(m1.output.data))

\* the prefixes of a stack whose range contains line number ln, in push order
ActivePrefixes(prefixes, ln) ==
    SelectSeq(prefixes,
              LAMBDA p : p.startLine <= ln /\ (p.endLine = -1 \/ p.endLine >= ln))

\* s without its trailing run of whitespace
WithoutTrailingSpace(s) ==
    LET keep == {i \in 1..Len(s) : ~IsSpace(s[i])}
    IN IF keep = {} THEN <<>>
       ELSE SubSeq(s, 1, CHOOSE i \in keep : \A j \in keep : j <= i)

\* positions of the newlines of s, and the content of its k-th complete line
NewlinesOf(s) == {i \in 1..Len(s) : s[i] = "\n"}
NumLines(s) == Cardinality(NewlinesOf(s))
LineEnd(s, k) == CHOOSE i \in NewlinesOf(s) : Cardinality({j \in NewlinesOf(s) : j < i}) = k - 1
LineContent(s, k) == SubSeq(s, IF k = 1 THEN 1 ELSE LineEnd(s, k - 1) + 1, LineEnd(s, k) - 1)

\* what the sink is to receive for the k-th line completed by a call that finds
\* the writer in state mw and leaves bytes (buffer and data) to be split in lines
ExpectedLine(mw, bytes, k) ==
    LET ln == mw.line + k - 1
        applied == [i \in 1..Len(ActivePrefixes(mw.prefixes, ln)) |->
                        ActivePrefixes(mw.prefixes, ln)[i].bytes]
    IN Append(WithoutTrailingSpace(Concat(applied) \o LineContent(bytes, k)), "\n")

\* C1: every line the writer completes reaches the sink as the bytes of the
\* prefixes on the stack whose range contains the line number, in push order,
\* then the line's content, the trailing whitespace run removed, then one
\* newline. Stated of Write, in every reachable writer state and for every
\* input: the k-th line the sink accepts during the call is the k-th expected
\* line, and without a sink error every completed line is accepted.
C1_LinesArePrefixedAndTrimmed ==
    pc = "writer" /\ m.err = NoErr =>
        \A data \in Data :
            LET bytes == m.buf \o data
                after == Write(m, data).m
                new == NewLines(m, after)
            IN /\ Len(new) <= NumLines(bytes)
               /\ after.err = NoErr => Len(new) = NumLines(bytes)
               /\ \A k \in 1..Len(new) : new[k] = ExpectedLine(m, bytes, k)

\* C1 witness: two prefixes are on the stack and the sink has accepted a line
\* that carries both, in push order, before its content
C1_Witness ==
    /\ pc = "writer"
    /\ Len(m.prefixes) = 2
    /\ m.prefixes[1].bytes = <<">">> /\ m.prefixes[2].bytes = <<" ">>
    /\ \E i \in 1..Len(m.output.data) : m.output.data[i] = <<">", " ", "a", "\n">>

\* the sink of the writer has returned an error
SinkFailed(mw) == mw.output.failFrom # 0 /\ mw.output.calls >= mw.output.failFrom

\* C2: once a sink write has returned an error the writer fails closed: Err()
\* is that first error, no later sink call is made, and Write, WriteString,
\* WriteLine, EndLine and FlushLine change nothing and report 0 bytes; while no
\* error is stored, Write and WriteLine report len(data).
C2_FailsClosed ==
    pc = "writer" =>
        /\ SinkFailed(m) <=> Err(m) # NoErr
        /\ Err(m) # NoErr =>
            /\ Err(m) = m.output.failFrom
            /\ m.output.calls = m.output.failFrom
            /\ EndLine(m).m = m
            /\ FlushLine(m).m = m
            /\ \A data \in Data :
                /\ Write(m, data) = [m |-> m, n |-> 0]
                /\ WriteString(m, data) = [m |-> m, n |-> 0]
                /\ WriteLine(m, data) = [m |-> m, n |-> 0]
        /\ Err(m) = NoErr =>
            \A data \in Data :
                /\ Err(Write(m, data).m) = NoErr => Write(m, data).n = Len(data)
                /\ Err(WriteLine(m, data).m) = NoErr => WriteLine(m, data).n = Len(data)

\* C2 witness: the second sink write failed after a line was accepted, and the
\* writer still holds bytes it will never send
C2_Witness ==
    /\ pc = "writer"
    /\ Err(m) = 2
    /\ Len(m.output.data) = 1
    /\ m.buf # <<>>

(***************************************************************************)
(* Properties of the Renderer, checked under SpecRender                    *)
(***************************************************************************)
Rendering == pc \in {"walk", "done"}

\* the rendered output so far: the lines the sink has accepted
Output == m.output.data

\* the lines the sink accepted during the last visit
VisitLines == SubSeq(Output, visit.before + 1, Len(Output))

\* the node renderers the last visit went through
VisitRenderers == {visit.trace[i].op : i \in 1..Len(visit.trace)}

\* the writer calls of the last visit with the given name
VisitCalls(op) == SelectSeq(visit.trace, LAMBDA e : e.op = op)

\* C3: a sink error during Render ends the walk at the visit that recorded it,
\* and Render returns exactly that error; a Render whose sink never fails
\* returns nil.
C3_ErrorStopsWalk ==
    Rendering =>
        /\ SinkFailed(m) =>
            /\ pc = "done"
            /\ result = m.output.failFrom
            /\ m.output.calls = m.output.failFrom
        /\ pc = "done" /\ ~SinkFailed(m) => result = NoErr

\* C3 witness: the sink failed on its second write, in the middle of the tree:
\* Render is over with that error, one line is out and nodes are still open
C3_Witness ==
    /\ pc = "done"
    /\ result = 2
    /\ Len(Output) = 1
    /\ Len(path) >= 2

\* C4: the output of a document without content is empty; any other output
\* ends with exactly one newline: the last line is not blank, and nothing
\* written is left in the line buffer.
C4_EndsWithOneNewline ==
    pc = "done" /\ result = NoErr =>
        /\ m.buf = <<>>
        /\ doc.nodes = 1 <=> Output = <<>>
        /\ Output # <<>> => Output[Len(Output)] # <<"\n">>

\* C5: on entering a block that has a previous sibling and the
\* blank-line-before flag exactly one blank line is emitted; on entering any
\* other block no blank line is emitted; on exiting a block nothing stays in
\* the line buffer.
C5_BlockSeparator ==
    Rendering /\ NodeType(visit.node) = "TypeBlock" /\ Err(m) = NoErr =>
        IF visit.entering
        THEN IF visit.node.hasPrev /\ visit.node.blank
             THEN /\ Len(VisitLines) >= 1
                  /\ VisitLines[1] = <<"\n">>
                  /\ Len(VisitLines) >= 2 => VisitLines[2] # <<"\n">>
             ELSE Len(VisitLines) >= 1 => VisitLines[1] # <<"\n">>
        ELSE m.buf = <<>>

\* the style the heading rules ask for
HeadingRule(node, style) ==
    IF ~node.hasChildren \/ node.level \in 3..6 THEN "ATX"
    ELSE IF Len(node.lines) >= 2 THEN "Setext"
    ELSE IF style \in {HeadingStyleSetext, HeadingStyleFullWidthSetext} THEN "Setext"
    ELSE "ATX"

\* C6: a heading without children or of level above 2 is rendered as ATX; any
\* other heading whose source has more than one line as Setext; any other as
\* the configured style says; on the enter and on the exit visit alike.
C6_HeadingStyle ==
    Rendering /\ visit.node.kind = "Heading" =>
        /\ "renderATXHeading" \in VisitRenderers
            <=> HeadingRule(visit.node, config.HeadingStyle) = "ATX"
        /\ "renderSetextHeading" \in VisitRenderers
            <=> HeadingRule(visit.node, config.HeadingStyle) = "Setext"

\* C6 witness: a two-line heading of level 2 has been exited under the ATX
\* configuration and its Setext underline is out
C6_Witness ==
    /\ Rendering
    /\ visit.node.kind = "Heading" /\ ~visit.entering
    /\ visit.node.level = 2 /\ Len(visit.node.lines) = 2
    /\ config.HeadingStyle = HeadingStyleATX
    /\ "renderSetextHeading" \in VisitRenderers
    /\ m.buf = <<>> /\ Output # <<>> /\ Output[Len(Output)] = <<"-", "-", "-", "\n">>

\* the bytes the last visit handed to Write and WriteString, in order
VisitBytes ==
    LET writes == SelectSeq(visit.trace, LAMBDA e : e.op \in {"Write", "WriteString"})
    IN Concat([i \in 1..Len(writes) |-> writes[i].arg])

\* the lengths of the maximal runs of backticks in text
BacktickRuns(text) ==
    {j - i + 1 : <<i, j>> \in
        {<<i, j>> \in (1..Len(text)) \X (1..Len(text)) :
            /\ i <= j
            /\ \A k \in i..j : text[k] = backtick
            /\ i = 1 \/ text[i - 1] # backtick
            /\ j = Len(text) \/ text[j + 1] # backtick}}

SmallestAbsent(S) == CHOOSE n \in 1..(Cardinality(S) + 1) : n \notin S /\ \A k \in 1..(n - 1) : k \in S

\* C7: the fence of a code span is as long as the smallest positive integer
\* that is not the length of a maximal backtick run of the span's content.
C7_FenceLength ==
    Rendering /\ visit.node.kind = "CodeSpan" =>
        Len(SelectSeq(VisitBytes, LAMBDA c : c = backtick))
            = SmallestAbsent(BacktickRuns(visit.node.text))

\* the content of a code span asks for a padding space inside the fences
NeedsPadding(text) ==
    \/ text[1] = backtick
    \/ text[Len(text)] = backtick
    \/ /\ IsSpace(text[1])
       /\ IsSpace(text[Len(text)])
       /\ \E i \in 1..Len(text) : ~IsSpace(text[i])

\* C8: a code span whose content begins or ends with a backtick, or begins and
\* ends with whitespace without being all whitespace, gets exactly one space
\* immediately inside each fence, and no other code span gets any.
C8_FencePadding ==
    Rendering /\ visit.node.kind = "CodeSpan" =>
        LET inside == SelectSeq(VisitBytes, LAMBDA c : c # backtick)
        IN IF NeedsPadding(visit.node.text)
           THEN /\ inside = <<" ">>
                /\ VisitBytes[IF visit.entering THEN Len(VisitBytes) ELSE 1] = " "
           ELSE inside = <<>>

\* the List that is the parent of the node of the last enter visit
ParentNode == path[Len(path) - 1].node

\* the prefix the last visit pushed first
FirstPushed == VisitCalls("PushPrefix")[1].arg

\* C9: every list item is rendered with the marker of the List that is its
\* parent, also after a nested list with another marker has been exited.
C9_ItemMarker ==
    Rendering /\ visit.node.kind = "ListItem" /\ visit.entering =>
        /\ Len(FirstPushed) >= 2
        /\ FirstPushed[Len(FirstPushed) - 1] = ParentNode.marker
        /\ FirstPushed[Len(FirstPushed)] = " "

\* strconv.Itoa for n >= 0
RECURSIVE Decimal(_)
Decimal(n) ==
    LET digit == <<"0", "1", "2", "3", "4", "5", "6", "7", "8", "9">>[(n % 10) + 1]
    IN IF n < 10 THEN <<digit>> ELSE Append(Decimal(n \div 10), digit)

\* C10: the k-th item (k = 0, 1, ...) of an ordered list that starts at s gets
\* the prefix decimal(s + k), marker, space; an item of an unordered list gets
\* marker, space.
C10_ItemPrefix ==
    Rendering /\ visit.node.kind = "ListItem" /\ visit.entering =>
        FirstPushed =
            (IF IsOrdered(ParentNode)
             THEN Decimal(ParentNode.start + path[Len(path) - 1].nchild - 1)
             ELSE <<>>)
            \o <<ParentNode.marker, " ">>

(***************************************************************************)
(* Lists: prefixes of list items                                           *)
(***************************************************************************)
\* the open list items above the node of the last visit, outermost first
ItemsAbove ==
    SelectSeq(IF visit.entering THEN SubSeq(path, 1, Len(path) - 1) ELSE path,
              LAMBDA e : e.node.kind = "ListItem")

\* what a block of the list corpus puts on a line: nothing (a blank line), the
\* texts of a TextBlock, or a thematic break
ListContents == {Repeat("a", k) : k \in 0..MaxSiblings} \cup {<<"-", "-", "-">>}

\* the prefixes line number n is to carry under the open items: of each item
\* the marker prefix on the item's first line, the indent on its later lines
ItemPrefixes(items, n) ==
    Concat([i \in 1..Len(items) |->
                IF n = items[i].line THEN items[i].pushed[1] ELSE items[i].pushed[2]])

Ordinal == ParentNode.start + path[Len(path) - 1].nchild - 1

\* the nested-list-length of a configuration; a Config without the field
\* renders with the default
NestedListLengthOf(c) ==
    IF "NestedListLength" \in DOMAIN c THEN c.NestedListLength ELSE 1

\* C12: the continuation indent pushed for a list item is a run of spaces as
\* long as the item's marker prefix (ordinal, marker, space for an ordered
\* list; marker, space otherwise) times max(NestedListLength, 1).
C12_ItemIndent ==
    Rendering /\ visit.node.kind = "ListItem" /\ visit.entering =>
        /\ Len(Pushed(visit.trace)) = 2
        /\ Pushed(visit.trace)[2] =
            Repeat(" ", (IF IsOrdered(ParentNode) THEN Len(Decimal(Ordinal)) + 2 ELSE 2)
                        * Max(NestedListLengthOf(config), 1))

(***************************************************************************)
(* Leaf blocks and headings                                                *)
(***************************************************************************)
\* the character of a thematic break style
BreakChar(style) ==
    CASE style = ThematicBreakStyleDashed -> "-"
      [] style = ThematicBreakStyleStarred -> "*"
      [] style = ThematicBreakStyleUnderlined -> "_"

\* C13: a thematic break is the character of the configured style repeated
\* max(ThematicBreakLength, 3) times: that is what the enter visit writes, and
\* the line the exit visit completes.
C13_ThematicBreak ==
    Rendering /\ visit.node.kind = "ThematicBreak" /\ doc.class = "leaf" /\ Err(m) = NoErr =>
        LET run == Repeat(BreakChar(config.ThematicBreakStyle),
                          Max(config.ThematicBreakLength, 3))
        IN IF visit.entering
           THEN VisitBytes = run /\ m.buf = run
           ELSE VisitLines = <<Append(run, "\n")>>

\* C13 witness: under a configured length of 0 a thematic break has been
\* rendered as three dashes
C13_Witness ==
    /\ Rendering /\ config.ThematicBreakLength = 0
    /\ visit.node.kind = "ThematicBreak" /\ ~visit.entering
    /\ VisitLines = << <<"-", "-", "-", "\n">> >>

\* the width of a source line, its line ending apart
LineWidth(line) == Len(SelectSeq(line, LAMBDA c : c # "\n"))

\* the width of the longest of the lines
RECURSIVE Longest(_)
Longest(lines) ==
    IF lines = <<>> THEN 0 ELSE Max(LineWidth(Head(lines)), Longest(Tail(lines)))

\* C14: on exit a Setext heading writes a newline and an underline of '='
\* (level 1) or '-' (level 2), 3 long unless the style is FullWidthSetext and
\* then as long as the longest source line of the heading is wide.
C14_SetextUnderline ==
    Rendering /\ visit.node.kind = "Heading" /\ ~visit.entering
              /\ "renderSetextHeading" \in VisitRenderers =>
        VisitBytes =
            <<"\n">> \o Repeat(IF visit.node.level = 1 THEN "=" ELSE "-",
                                IF config.HeadingStyle = HeadingStyleFullWidthSetext
                                THEN Longest(visit.node.lines) ELSE 3)

\* C15: an ATX heading of level L writes L '#' on entering, and one space
\* after them only if the heading has children; on exit it writes a space and
\* L '#' under the ATXSurround style, also for a heading without children,
\* and nothing under any other style.
C15_ATXHeading ==
    Rendering /\ visit.node.kind = "Heading" /\ "renderATXHeading" \in VisitRenderers =>
        LET hashes == Repeat("#", visit.node.level) IN
        /\ visit.entering =>
            VisitBytes = hashes \o (IF visit.node.hasChildren THEN <<" ">> ELSE <<>>)
        /\ ~visit.entering =>
            VisitBytes = (IF config.HeadingStyle = HeadingStyleATXSurround
                          THEN <<" ">> \o hashes ELSE <<>>)
        /\ ~visit.entering /\ ~visit.node.hasChildren /\ Err(m) = NoErr =>
            VisitLines = <<Append(IF config.HeadingStyle = HeadingStyleATXSurround
                                  THEN hashes \o <<" ">> \o hashes ELSE hashes, "\n")>>

\* C15 witness: an empty heading of level 2 has been rendered under the
\* ATXSurround style, closing sequence included
C15_Witness ==
    /\ Rendering /\ config.HeadingStyle = HeadingStyleATXSurround
    /\ visit.node.kind = "Heading" /\ ~visit.entering /\ ~visit.node.hasChildren
    /\ VisitLines = << <<"#", "#", " ", "#", "#", "\n">> >>

\* the fence of a fenced code block
Fence == <<backtick, backtick, backtick>>

PrefixAfterPush(bytes, lineRanges, n) ==
    buildPrefix(PushPrefix(m, bytes, lineRanges).prefixes, n)

\* C17: with c the line counter at the call, PushPrefix(b) applies b to line c
\* and every later line; PushPrefix(b, s) to the lines from c + s on and to no
\* earlier line; PushPrefix(b, s, e) to the e + 1 lines c + s .. c + s + e and
\* to no other; the bytes come after the prefixes that were on the stack, and
\* PopPrefix takes the prefix off again.
C17_PushPrefixRanges ==
    pc = "writer" =>
        \A b \in PrefixBytes, n \in 0..(m.line + 4) :
            LET before == buildPrefix(m.prefixes, n)
                with == before \o b
            IN /\ n >= m.line => PrefixAfterPush(b, <<>>, n) = with
               /\ \A s \in 0..2 :
                    /\ PrefixAfterPush(b, <<s>>, n) = (IF n >= m.line + s THEN with ELSE before)
                    /\ \A e \in 0..2 :
                        /\ PrefixAfterPush(b, <<s, e>>, n) =
                            (IF m.line + s <= n /\ n <= m.line + s + e THEN with ELSE before)
                        /\ n = 0 => PopPrefix(PushPrefix(m, b, <<s, e>>)) = m

\* C17 witness: a prefix pushed at line 0 for the next line only is on the
\* stack; line 0 went out without it and line 1 with it
C17_Witness ==
    /\ pc = "writer"
    /\ m.prefixes = <<[startLine |-> 1, endLine |-> 1, bytes |-> <<">">>]>>
    /\ m.output.data = << <<"a", "\n">>, <<">", "a", "\n">> >>

\* the number of lines a call ends on a sink that never fails: its sink writes
LinesEnded(res) == res.m.output.calls - m.output.calls

\* C18: FlushLine emits nothing when the partial line is empty and ends
\* exactly one line when it is not; EndLine always ends exactly one line, a
\* line without content when the partial line is empty.
C18_FlushAndEndLine ==
    pc = "writer" /\ Err(m) = NoErr /\ m.output.failFrom = 0 =>
        /\ m.buf = <<>> => FlushLine(m).m = m
        /\ m.buf # <<>> => LinesEnded(FlushLine(m)) = 1
        /\ LinesEnded(EndLine(m)) = 1
        /\ m.buf = <<>> =>
            NewLines(m, EndLine(m).m) = <<ExpectedLine(m, <<"\n">>, 1)>>

\* C19: every line sent to the sink begins with all the bytes of the prefixes
\* active for it, whatever the content of the line.
C19_PrefixSurvivesTrimming ==
    pc = "writer" /\ Err(m) = NoErr =>
        \A data \in Data :
            LET new == NewLines(m, Write(m, data).m) IN
            \A k \in 1..Len(new) :
                LET active == ActivePrefixes(m.prefixes, m.line + k - 1)
                    bytes == Concat([i \in 1..Len(active) |-> active[i].bytes])
                IN /\ Len(new[k]) >= Len(bytes)
                   /\ SubSeq(new[k], 1, Len(bytes)) = bytes

\* C20: Reset(w) leaves the writer as a newly constructed writer on w is:
\* empty buffer, empty prefix stack, line counter 0, no error.
C20_ResetIsFresh ==
    pc = "writer" =>
        \A w \in Sinks :
            /\ Reset(m, w) = newMarkdownWriter(w)
            /\ Reset(m, w) = [buf |-> <<>>, output |-> w, prefixes |-> <<>>,
                              line |-> 0, err |-> NoErr]

\* C20 witness: a writer to be reset that stores an error, holds a prefix and
\* a partial line, and has counted a line
C20_Witness ==
    /\ pc = "writer"
    /\ Err(m) # NoErr /\ m.prefixes # <<>> /\ m.buf # <<>> /\ m.line > 0

(***************************************************************************)
(* The chain of renderers of a block                                       *)
(***************************************************************************)
\* the place in the trace of the last visit where the named renderer starts
EnteredAt(name) == {i \in 1..Len(visit.trace) : visit.trace[i].op = name}

\* C23: for every block-type node the block separator is composed with the
\* renderer of the kind and never bypassed. On entering it runs first: its
\* blank line, if one is due, is written before the node's renderer writes or
\* pushes anything. On exiting it runs last: its FlushLine is the last call of
\* the visit. The status of the enter visit is that of the kind's renderer
\* (skip children for an indented code block), and the walk honours it.
C23_SeparatorComposed ==
    Rendering /\ NodeType(visit.node) = "TypeBlock" =>
        LET n == Len(visit.trace) IN
        /\ Cardinality(EnteredAt("renderBlockSeparator")) = 1
        /\ visit.entering =>
            /\ visit.trace[1].op = "renderBlockSeparator"
            /\ IF visit.node.hasPrev /\ visit.node.blank
               THEN EnteredAt("EndLine") = {2} ELSE EnteredAt("EndLine") = {}
            /\ visit.status =
                (IF visit.node.kind = "CodeBlock" THEN WalkSkipChildren ELSE WalkContinue)
            /\ Top.skip <=> visit.node.kind = "CodeBlock"
        /\ ~visit.entering =>
            /\ visit.trace[n - 1].op = "renderBlockSeparator"
            /\ visit.trace[n].op = "FlushLine"
            /\ EnteredAt("FlushLine") = {n}

\* C23 witness: a fenced code block after a blank line has been exited: its
\* renderer wrote the closing fence, then the separator flushed it
C23_Witness ==
    /\ Rendering /\ visit.node.kind = "FencedCodeBlock" /\ ~visit.entering
    /\ visit.node.hasPrev /\ visit.node.blank
    /\ [i \in 1..Len(visit.trace) |-> visit.trace[i].op] =
            <<"renderFencedCodeBlock", "Write", "renderBlockSeparator", "FlushLine">>
    /\ VisitLines = <<Append(Fence, "\n")>>

(***************************************************************************)
(* More properties of the writer, checked under SpecWriter                 *)
(***************************************************************************)
\* byte strings without a newline handed to WriteLine
LineBytes == {<<>>, <<"a">>, <<" ">>, <<"a", " ">>}

\* C24: WriteLine writes its argument as a finished line whether or not it
\* ends with a newline: for every byte string b without a newline, the empty
\* one included, and every writer state, WriteLine(b) and WriteLine(b, newline)
\* leave the same sink output and the same writer, and without an error the
\* call has ended a line and left the buffer empty.
C24_WriteLineFinishesLine ==
    pc = "writer" =>
        \A b \in LineBytes :
            LET res == WriteLine(m, b) IN
            /\ res.m = WriteLine(m, Append(b, "\n")).m
            /\ Err(m) = NoErr /\ Err(res.m) = NoErr =>
                /\ res.m.buf = <<>>
                /\ res.m.line > m.line

\* the byte strings of a sink's data that are one line: one newline, at the end
IsOneLine(bytes) == NewlinesOf(bytes) = {Len(bytes)}

\* C26: between two Resets the line counter never decreases and is the number
\* of lines the sink has accepted: every byte string the sink accepts is one
\* line, a call advances the counter by the number of sink writes that
\* succeeded during it, and a sink write that fails does not advance it. A
\* Reset hands the writer a new sink and starts the counter at 0 again.
C26_LineCounter ==
    [][pc = "writer" =>
        LET accepted == Len(m'.output.data) - Len(m.output.data)
            attempts == m'.output.calls - m.output.calls
            failed == IF Err(m') # NoErr /\ Err(m) = NoErr THEN 1 ELSE 0
        IN /\ m'.line = Len(m'.output.data)
           /\ \A i \in 1..Len(m'.output.data) : IsOneLine(m'.output.data[i])
           /\ IF attempts < 0
              THEN m'.line = 0
              ELSE /\ m'.line >= m.line
                   /\ m'.line = m.line + accepted
                   /\ accepted = attempts - failed]_vars

\* C26 witness: the sink accepted one line and refused the next: the counter
\* stands at 1 after two sink writes
C26_Witness ==
    /\ pc = "writer"
    /\ m.line = 1 /\ m.output.calls = 2 /\ Err(m) = 2

\* C27: after any write operation (Write, WriteString, WriteLine, EndLine,
\* FlushLine) has returned with no error stored, the line buffer holds no
\* newline: every complete line went to the sink, so the line counter a
\* following PushPrefix reads is the number of the line in progress.
C27_NoBufferedNewline ==
    pc = "writer" /\ Err(m) = NoErr => ~Contains(m.buf, lineDelim)

\* the writer mw on a sink with the same past that never fails
NeverFails(mw) == [mw EXCEPT !.output.failFrom = 0]

IsPrefix(s, t) == Len(s) <= Len(t) /\ s = SubSeq(t, 1, Len(s))

\* what a write operation leaves (after) against what it leaves on the sink
\* that never fails (twin), for a writer mw that stores no error
SameUpToFailure(mw, after, twin) ==
    /\ IsPrefix(after.output.data, twin.output.data)
    /\ IsPrefix(mw.output.data, after.output.data)
    /\ IF Err(after) = NoErr
       THEN NeverFails(after) = twin
       ELSE /\ Len(after.output.data) = mw.output.failFrom - 1
            /\ after.output.calls = mw.output.failFrom

\* C28: a failure never rolls back or corrupts what was flushed. While no
\* error is stored, every write operation does on the writer's sink what it
\* does on a sink that never fails, up to the sink write that fails: the lines
\* accepted are the first lines the never-failing sink accepts, and if the
\* k-th sink write fails exactly k - 1 lines are in the sink. Once the error
\* is stored nothing more is sent: the sink keeps its k - 1 lines and has seen
\* k writes.
C28_FlushedOutputStays ==
    pc = "writer" =>
        IF Err(m) # NoErr
        THEN /\ Len(m.output.data) = m.output.failFrom - 1
             /\ m.output.calls = m.output.failFrom
             /\ EndLine(m).m.output = m.output
             /\ FlushLine(m).m.output = m.output
             /\ \A data \in Data :
                    /\ Write(m, data).m.output = m.output
                    /\ WriteString(m, data).m.output = m.output
                    /\ WriteLine(m, data).m.output = m.output
        ELSE LET t == NeverFails(m) IN
             /\ SameUpToFailure(m, EndLine(m).m, EndLine(t).m)
             /\ SameUpToFailure(m, FlushLine(m).m, FlushLine(t).m)
             /\ \A data \in Data :
                    /\ SameUpToFailure(m, Write(m, data).m, Write(t, data).m)
                    /\ SameUpToFailure(m, WriteString(m, data).m, WriteString(t, data).m)
                    /\ SameUpToFailure(m, WriteLine(m, data).m, WriteLine(t, data).m)

\* C28 witness: one line is out and the sink will refuse the second; the
\* buffer holds a complete line, so that the next Write completes two lines,
\* both of which a sink that never fails accepts
C28_Witness ==
    /\ pc = "writer" /\ Err(m) = NoErr
    /\ m.output.failFrom = 2 /\ Len(m.output.data) = 1
    /\ Contains(m.buf, lineDelim)
    /\ Len(Write(NeverFails(m), <<"\n">>).m.output.data) = 3
    /\ Write(m, <<"\n">>).m.output.data = m.output.data

(***************************************************************************)
(* The prefix stack during Render, checked under SpecRender                *)
(***************************************************************************)
\* the prefixes the open nodes of a path are to hold on the stack: two for a
\* list item, one for an indented code block
RECURSIVE OpenPrefixes(_)
OpenPrefixes(p) ==
    IF p = <<>> THEN 0
    ELSE (CASE Head(p).node.kind = "ListItem" -> 2
            [] Head(p).node.kind = "CodeBlock" -> 1
            [] OTHER -> 0)
         + OpenPrefixes(Tail(p))

\* the calls of a trace find a stack of the given depth: does a PopPrefix among
\* them find the stack empty
RECURSIVE PopsEmptyStack(_, _)
PopsEmptyStack(depth, trace) ==
    IF trace = <<>> THEN FALSE
    ELSE CASE Head(trace).op = "PopPrefix" ->
                depth = 0 \/ PopsEmptyStack(depth - 1, Tail(trace))
           [] Head(trace).op = "PushPrefix" -> PopsEmptyStack(depth + 1, Tail(trace))
           [] OTHER -> PopsEmptyStack(depth, Tail(trace))

\* C29: the pushes and pops of the renderers are strictly nested. Throughout
\* a Render the depth of the prefix stack is twice the number of open ListItem
\* nodes plus the number of open indented CodeBlock nodes (the code block pops
\* on its exit visit although its children are skipped), no visit calls
\* PopPrefix on an empty stack, and when a Render has completed without error
\* the stack is empty.
C29_PrefixesNested ==
    [][pc' \in {"walk", "done"} =>
        /\ Len(m'.prefixes) = OpenPrefixes(path')
        /\ pc = "walk" => ~PopsEmptyStack(Len(m.prefixes), visit'.trace)
        /\ pc' = "done" /\ result' = NoErr => m'.prefixes = <<>>]_vars

\* C29 witness: an indented code block, whose children the walk skips, has
\* been exited: the visit popped the prefix pushed on entering
C29_Witness ==
    /\ Rendering /\ visit.node.kind = "CodeBlock" /\ ~visit.entering
    /\ Len(VisitCalls("PopPrefix")) = 1
    /\ m.prefixes = <<>>
    /\ Len(Output) > 0 /\ Output[Len(Output)] = IndentStyleBytes(config.IndentStyle) \o <<"a", "\n">>

\* C30: every ListItem that is rendered produces an output line carrying its
\* marker, an item without children included: when the item is exited, a line
\* has been completed since it was entered, under the item's prefixes, and the
\* first such line begins with the item's marker. With one marker line per
\* item the lines that carry a marker are as many as the ListItem nodes.
C30_ItemLineCarriesMarker ==
    [][pc = "walk" /\ Len(path') < Len(path) /\ Top.node.kind = "ListItem"
            /\ Err(m') = NoErr =>
        LET marker == TrimRightFunc(Top.pushed[1])
            outer == ItemPrefixes(SelectSeq(SubSeq(path, 1, Len(path) - 1),
                                            LAMBDA e : e.node.kind = "ListItem"),
                                  Top.line)
        IN /\ Len(m.output.data) > Top.line
           /\ IsPrefix(outer \o marker, m.output.data[Top.line + 1])]_vars

(***************************************************************************)
(* Render calls that share one Renderer.  r.rc is a field of the Renderer: *)
(* every Render call stores a new context in it, and the walker function   *)
(* reads it at every visit.  With each call goes, for comparison, the same *)
(* Render on a Renderer of its own, constructed with the same              *)
(* configuration: it makes the same visits and stops at its first error.   *)
(***************************************************************************)
\* NewRenderer(options...) followed by Render(w, source, n), up to the walk
Alone(w) ==
    [m |-> newMarkdownWriter(w), rc |-> [listMarker |-> "", inCodeSpan |-> FALSE],
     result |-> NoErr]

\* one visit of the walk of the Renderer that renders alone
AloneVisit(a, node, entering) ==
    IF a.result # NoErr THEN a
    ELSE LET res == Walker([config |-> config, rc |-> a.rc, m |-> a.m, trace |-> <<>>],
                           node, entering)
         IN [m |-> res.r.m, rc |-> res.r.rc, result |-> res.err]

\* what the Renderer holds of the Render before when Render is called again
Left ==
    IF pc = "idle" THEN NoRender
    ELSE [rendered |-> TRUE, result |-> result, rc |-> rc, prefixes |-> Len(m.prefixes),
          buf |-> m.buf]

\* the other call once r.rc holds a new context: its sink stays as it is
Detached(o) ==
    IF o.call.attached THEN [o EXCEPT !.call.attached = FALSE, !.call.w = m.output]
    ELSE o

\* Render is called on a Renderer that has rendered before
RenderAgain ==
    /\ \E w \in RenderSinks(SharedClass) :
        /\ RenderCall(SharedClass, w)
        /\ call' = [w |-> w, attached |-> TRUE, prev |-> Left, alone |-> Alone(w)]
    /\ other' = Detached(other)

\* the Renderer that renders alone follows the visit made
Follow ==
    /\ call' = [call EXCEPT !.alone = AloneVisit(@, visit'.node, visit'.entering)]
    /\ UNCHANGED other

EnterAgain == EnterNode /\ Follow

ExitAgain == ExitNode /\ Follow

InitShared ==
    /\ pc = "idle"
    /\ m = NilWriter
    /\ RendererIdle

NextSuccessive ==
    \/ RenderAgain
    \/ EnterAgain
    \/ ExitAgain

SpecSuccessive == InitShared /\ [][NextSuccessive]_vars

\* C21: no state of a Render leaks into the next Render on the same Renderer:
\* a Render that follows an earlier one, completed or ended by a sink error in
\* the middle of a list, a code block or a code span, yields the output and
\* the result of the same Render on a newly constructed Renderer with the
\* same configuration. At every visit the writer (sink, buffer, prefix stack,
\* line counter, error), the list and code span state and the result are the
\* same on both.
C21_NoLeakBetweenRenders ==
    Rendering =>
        /\ m = call.alone.m
        /\ rc = call.alone.rc
        /\ result = call.alone.result

\* C21 witness: a Render was ended by a sink error inside a list item, marker
\* set and two prefixes on the stack; the next Render on the Renderer has
\* rendered a list completely
C21_Witness ==
    /\ pc = "done" /\ result = NoErr
    /\ call.prev.rendered /\ call.prev.result # NoErr
    /\ call.prev.prefixes = 2 /\ call.prev.rc.listMarker = "-"
    /\ Output = << <<"-", " ", "a", "\n">> >>

(***************************************************************************)
(* Two Render calls run concurrently on one Renderer, each with a sink of  *)
(* its own.  One call runs at a time and the calls take turns between      *)
(* visits; the accesses to r.rc are not synchronised, and these            *)
(* interleavings are among the executions.                                 *)
(***************************************************************************)
\* the running call is suspended and the other call goes on
Switch ==
    /\ pc' = other.pc
    /\ doc' = other.doc
    /\ path' = other.path
    /\ result' = other.result
    /\ visit' = other.visit
    /\ call' = other.call
    /\ other' = [pc |-> pc, doc |-> doc, path |-> path, result |-> result,
                 visit |-> visit, call |-> call]
    /\ UNCHANGED <<m, rc, config>>

\* each of the two calls is one call of Render
RenderOnce == pc = "idle" /\ RenderAgain

EnterConcurrently == doc.nodes < MaxConcurrentNodes /\ EnterAgain

NextConcurrent ==
    \/ RenderOnce
    \/ EnterConcurrently
    \/ ExitAgain
    \/ Switch

SpecConcurrent == InitShared /\ [][NextConcurrent]_vars

\* the sink of a call as it stands: the output of r.rc.writer while the
\* context of the call is the one the Renderer holds
OwnSink(c) == IF c.attached THEN m.output ELSE c.w

\* a call has got, and its sink has received, what the call gets alone
OwnOutput(p, c, res) ==
    p \in {"walk", "done"} =>
        /\ OwnSink(c).data = c.alone.m.output.data
        /\ p = "done" => res = c.alone.result

\* C22: the state of a Render is not shared between concurrent Renders: with
\* two Render calls running concurrently on one Renderer, each with its own
\* sink, in every interleaving each sink receives exactly the output of its
\* own document and each call returns the error of its own sink.
C22_ConcurrentRenders ==
    /\ OwnOutput(pc, call, result)
    /\ OwnOutput(other.pc, other.call, other.result)

====
